---- MODULE Spec2Model ----
(***************************************************************************)
(* Model of the household-ledger page (Home component) of my-budget-app.   *)
(* The React state of the component is the state of the model; every       *)
(* event handler, effect and response continuation is one action.          *)
(***************************************************************************)
EXTENDS Integers, Sequences, FiniteSets, TLC

VARIABLES
    transactions,        \* useState<Transaction[]>: the in-memory list
    amount,              \* useState<string>: the amount field, a sequence of characters
    description,         \* useState<string>
    categories,          \* useState<string[]>
    category,            \* useState<string>: the selected category
    newCategory,         \* useState<string>: the category-manager text field
    type,                \* useState<TransactionType>
    loading,             \* useState<boolean>
    currency,            \* useState<Currency>
    exchangeRate,        \* useState<number | null>
    exchangeRateLoading, \* useState<boolean>
    selectedDate,        \* useState<Date>: the calendar's reference date
    selectedFilterDate,  \* useState<Date | null>: the day the list is filtered by
    selectedMonth,       \* useState<Date>: the summary's reference month
    calendarView,        \* useState<CalendarView>
    mounted,             \* whether the mount effects have run
    sessions,            \* how many times the page has been opened and mounted
    storage,             \* localStorage: key -> saved value
    store,               \* the rows of the remote transactions table
    nextId,              \* the table's BIGSERIAL sequence
    pending,             \* store requests in flight, with the closure they captured
    rateFetches,         \* exchange-rate fetches in flight, each with the rate
                         \* that was cached when it started
    lastAlert,           \* the alert() shown by the most recent handler ("none" if none)
    lastConfirm,         \* whether the most recent handler opened a confirm() dialog
    analysis,            \* AIAnalysis useState<string>: the advice shown
    analysisLoading,     \* AIAnalysis useState<boolean> (its loading)
    analysisError,       \* AIAnalysis useState<string> (its error)
    analysisRequests     \* analyzeSpending calls in flight, each with its argument
                         \* and the analysis that was shown when it started

vars == <<transactions, amount, description, categories, category, newCategory,
          type, loading, currency, exchangeRate, exchangeRateLoading, selectedDate,
          selectedMonth, calendarView, mounted, sessions, storage, store, nextId,
          pending,
          rateFetches, lastAlert, lastConfirm, analysis, analysisLoading,
          analysisError, analysisRequests, selectedFilterDate>>

(***************************************************************************)
(* Calendar dates.  A Date is modelled by its local calendar fields        *)
(* [y, m, d] with m in 0..11 as in JavaScript.  The Date constructor and   *)
(* setMonth/setDate accept out-of-range months and days and normalise      *)
(* them by carrying into the next larger field.                            *)
(***************************************************************************)
FirstYear == 2023
NumYears == 2

Years == FirstYear .. (FirstYear + NumYears - 1)

IsLeapYear(y) == (y % 4 = 0 /\ y % 100 # 0) \/ y % 400 = 0

DaysInMonthOf(y, m) ==
    IF m = 1 THEN (IF IsLeapYear(y) THEN 29 ELSE 28)
    ELSE IF m \in {3, 5, 8, 10} THEN 30 ELSE 31

\* Number of days from 1970-01-01 to the (in-range) date y / m+1 / d.
DayNumber(y, m, d) ==
    LET yy  == IF m <= 1 THEN y - 1 ELSE y
        era == yy \div 400
        yoe == yy - era * 400
        mp  == IF m >= 2 THEN m - 2 ELSE m + 10
        doy == (153 * mp + 2) \div 5 + d - 1
        doe == yoe * 365 + yoe \div 4 - yoe \div 100 + doy
    IN  era * 146097 + doe - 719468

\* The calendar date of a day number.
DateOfDayNumber(n) ==
    LET z   == n + 719468
        era == z \div 146097
        doe == z - era * 146097
        yoe == (doe - doe \div 1460 + doe \div 36524 - doe \div 146096) \div 365
        doy == doe - (365 * yoe + yoe \div 4 - yoe \div 100)
        mp  == (5 * doy + 2) \div 153
        dd  == doy - (153 * mp + 2) \div 5 + 1
        mm  == IF mp < 10 THEN mp + 2 ELSE mp - 10
        yy  == yoe + era * 400 + (IF mm <= 1 THEN 1 ELSE 0)
    IN  [y |-> yy, m |-> mm, d |-> dd]

\* new Date(year, month, day): month and day may lie outside their ranges.
MakeDate(year, month, day) ==
    LET yy == year + (month \div 12)
        mm == month % 12
    IN  DateOfDayNumber(DayNumber(yy, mm, 1) + day - 1)

DayOf(date) == DayNumber(date.y, date.m, date.d)

\* Date.prototype.getDay(): 0 = Sunday .. 6 = Saturday.
GetDay(date) == (DayOf(date) + 4) % 7

\* Date.prototype.setMonth(n) and setDate(n) on a copy of date.
SetMonth(date, n) == MakeDate(date.y, n, date.d)
SetDate(date, n) == MakeDate(date.y, date.m, n)

\* The dates a clock reading (new Date()) can yield within the modelled years.
Dates ==
    { [y |-> yy, m |-> mm, d |-> dd] :
        yy \in Years, mm \in 0..11, dd \in 1..31 } \cap
    { DateOfDayNumber(n) :
        n \in DayNumber(FirstYear, 0, 1) .. DayNumber(FirstYear + NumYears - 1, 11, 31) }

InRange(date) == date.y \in Years

\* The variables by concern, for the frame conditions.
listVars == <<transactions, loading>>
formVars == <<amount, description, type>>
catVars == <<categories, category, newCategory>>
prefVars == <<currency, storage>>
rateVars == <<exchangeRate, exchangeRateLoading, rateFetches>>
monthVars == <<selectedMonth>>
calVars == <<selectedDate, calendarView>>
storeVars == <<store, nextId, pending>>
dialogVars == <<lastAlert, lastConfirm>>
aiVars == <<analysis, analysisLoading, analysisError, analysisRequests>>

\* A handler that opens no dialog.
NoDialog == lastAlert' = "none" /\ lastConfirm' = FALSE

(***************************************************************************)
(* Calendar arithmetic of the page.                                        *)
(***************************************************************************)
\* getPreviousMonth: copy the date, setMonth(getMonth() - 1).
GetPreviousMonth(date) == SetMonth(date, date.m - 1)

GetDaysInMonthFiveWeeks(date) ==
    LET year  == date.y
        month == date.m
        sdow  == GetDay(MakeDate(year, month, 1))
        dim   == MakeDate(year, month + 1, 0).d
        pmd   == MakeDate(year, month, 0).d
        lead  == [k \in 1..sdow |-> MakeDate(year, month - 1, pmd - (sdow - k))]
        cur   == [i \in 1..dim |-> MakeDate(year, month, i)]
        rem   == 35 - (sdow + dim)
    IN  lead \o cur \o [i \in 1..rem |-> MakeDate(year, month + 1, i)]

\* getDaysInMonth: the cells of the month view, in display order.
GetDaysInMonth(date) ==
    LET year              == date.y
        month             == date.m
        firstDay          == MakeDate(year, month, 1)
        lastDay           == MakeDate(year, month + 1, 0)
        daysInMonth       == lastDay.d
        startingDayOfWeek == GetDay(firstDay)
        prevMonth         == MakeDate(year, month, 0)
        prevMonthDays     == prevMonth.d
        \* for (i = startingDayOfWeek - 1; i >= 0; i--): the k-th push has
        \* i = startingDayOfWeek - k
        leading == [k \in 1..startingDayOfWeek |->
                      MakeDate(year, month - 1, prevMonthDays - (startingDayOfWeek - k))]
        current == [i \in 1..daysInMonth |-> MakeDate(year, month, i)]
        remainingDays == 42 - Len(leading \o current)
        trailing == [i \in 1..remainingDays |-> MakeDate(year, month + 1, i)]
    IN  leading \o current \o trailing

GetWeekDaysFromMonday(date) ==
    LET weekStart == SetDate(date, date.d - GetDay(date) + 1)
    IN  [k \in 1..7 |-> SetDate(weekStart, weekStart.d + (k - 1))]

\* getWeekDays: the cells of the week view.
GetWeekDays(date) ==
    LET weekStart == SetDate(date, date.d - GetDay(date))
    IN  [k \in 1..7 |-> SetDate(weekStart, weekStart.d + (k - 1))]

(***************************************************************************)
(* Strings and numbers of the amount field.  A string is a sequence of     *)
(* one-character strings.  A number is an integer count of 1/Scale units,  *)
(* so that the decimal fractions a user can type are exact.  parseFloat    *)
(* yields [nan |-> TRUE] or [nan |-> FALSE, val |-> number].               *)
(***************************************************************************)
MaxAmountLen == 3

RECURSIVE Pow10(_)
Pow10(n) == IF n = 0 THEN 1 ELSE 10 * Pow10(n - 1)

Scale == Pow10(MaxAmountLen)

NaN == [nan |-> TRUE, val |-> 0]

Num(v) == [nan |-> FALSE, val |-> v]

DigitChars == <<"0", "1", "2", "3", "4", "5", "6", "7", "8", "9">>

IsDigit(c) == \E i \in 1..10 : DigitChars[i] = c

DigitValue(c) == (CHOOSE i \in 1..10 : DigitChars[i] = c) - 1

RECURSIVE DigitPrefixLen(_)
DigitPrefixLen(s) ==
    IF s = <<>> \/ ~IsDigit(Head(s)) THEN 0 ELSE 1 + DigitPrefixLen(Tail(s))

RECURSIVE DigitsValue(_)
DigitsValue(ds) ==
    IF ds = <<>> THEN 0
    ELSE 10 * DigitsValue(SubSeq(ds, 1, Len(ds) - 1)) + DigitValue(ds[Len(ds)])

\* The parts of the longest prefix of s that is a decimal literal:
\* sign, integer digits, "." and fraction digits.
DecimalPrefix(s) ==
    LET signed == s # <<>> /\ Head(s) \in {"-", "+"}
        body   == IF signed THEN Tail(s) ELSE s
        n      == DigitPrefixLen(body)
        rest   == SubSeq(body, n + 1, Len(body))
        hasDot == rest # <<>> /\ Head(rest) = "."
        fl     == IF hasDot THEN DigitPrefixLen(Tail(rest)) ELSE 0
    IN  [neg      |-> signed /\ Head(s) = "-",
         plus     |-> signed /\ Head(s) = "+",
         int      |-> SubSeq(body, 1, n),
         hasDot   |-> hasDot,
         frac     |-> IF hasDot THEN SubSeq(Tail(rest), 1, fl) ELSE <<>>,
         consumed |-> (IF signed THEN 1 ELSE 0) + n + (IF hasDot THEN 1 + fl ELSE 0)]

\* parseFloat(s): the value of the longest decimal-literal prefix, NaN when
\* there is none.  (Exponents and leading blanks do not occur in the field.)
ParseFloat(s) ==
    LET p == DecimalPrefix(s)
        magnitude == DigitsValue(p.int) * Scale
                     + DigitsValue(p.frac) * Pow10(MaxAmountLen - Len(p.frac))
    IN  IF p.int = <<>> /\ p.frac = <<>> THEN NaN
        ELSE IF p.neg THEN Num(0 - magnitude) ELSE Num(magnitude)

IsNaN(x) == x.nan

RoundToUnit(v) == ((2 * v + Scale) \div (2 * Scale)) * Scale

RoundToStepNextMultiple(v) == ((v \div (10 * Scale)) + 1) * 10 * Scale

RoundToStepHalfDown(v) == ((2 * v + 10 * Scale - 1) \div (20 * Scale)) * 10 * Scale

\* Math.round(v / 10) * 10; Math.round rounds halves towards +Infinity.
RoundToStep(v) == ((2 * v + 10 * Scale) \div (20 * Scale)) * 10 * Scale

IsMultipleOf10(v) == v % (10 * Scale) = 0

RECURSIVE NatToString(_)
NatToString(k) ==
    IF k < 10 THEN <<DigitChars[k + 1]>>
    ELSE NatToString(k \div 10) \o <<DigitChars[(k % 10) + 1]>>

\* Number.prototype.toString() of an integral value.
NumberToString(v) ==
    IF v < 0 THEN <<"-">> \o NatToString((0 - v) \div Scale)
    ELSE NatToString(v \div Scale)

\* What <input type="number"> can hold: the empty string or a valid
\* floating-point number (optional "-", digits, optional "." and digits).
AmountAlphabet == {"0", "1", "5", "-", "."}

IsValidFloatString(s) ==
    LET p == DecimalPrefix(s)
    IN  /\ p.consumed = Len(s)
        /\ ~p.plus
        /\ p.int # <<>> \/ p.frac # <<>>
        /\ p.hasDot => p.frac # <<>>

AmountInputs ==
    { s \in UNION { [1..n -> AmountAlphabet] : n \in 0..MaxAmountLen } :
        s = <<>> \/ IsValidFloatString(s) }

(***************************************************************************)
(* The state after construction: the useState initial values, nothing      *)
(* saved in localStorage, an empty remote table, no request in flight.     *)
(* Strings that the code inspects character by character (the amount       *)
(* field, category names) are sequences of characters; each Hangul         *)
(* syllable of a built-in category name is written as one romanised token. *)
(***************************************************************************)
\* localStorage maps the keys that were set to their texts; getItem of any
\* other key is null.
NoItems == [k \in {} |-> <<>>]

HasItem(items, key) == key \in DOMAIN items

SetItem(items, key, text) ==
    [k \in DOMAIN items \cup {key} |-> IF k = key THEN text ELSE items[k]]

\* number | null as a sequence of at most one number.
NoRate == <<>>

\* Date | null as a sequence of at most one date.
NoDate == <<>>

DefaultCategories ==
    << <<"sik", "bi">>, <<"gyo", "tong">>, <<"syo", "ping">>,
       <<"wol", "geup">>, <<"gi", "ta">> >>

\* The date new Date() yields at construction in the runs that do not vary it.
Today == [y |-> FirstYear, m |-> 0, d |-> 31]

\* What localStorage holds on the first visit: nothing, or an empty array
\* under the categories key, which the load effect must not take over.
InitialStorage == { NoItems, SetItem(NoItems, "categories", <<"[", "]">>) }

InitWith(today) ==
    /\ transactions = <<>>
    /\ amount = <<>>
    /\ description = ""
    /\ categories = DefaultCategories
    /\ category = <<"gi", "ta">>
    /\ newCategory = <<>>
    /\ type = "expense"
    /\ loading = TRUE
    /\ currency = "KRW"
    /\ exchangeRate = NoRate
    /\ exchangeRateLoading = FALSE
    /\ rateFetches = <<>>
    /\ selectedDate = today
    /\ selectedMonth = today
    /\ calendarView = "month"
    /\ mounted = FALSE
    /\ sessions = 0
    /\ storage \in InitialStorage
    /\ store = {}
    /\ nextId = 1
    /\ pending = <<>>
    /\ lastAlert = "none"
    /\ lastConfirm = FALSE
    /\ selectedFilterDate = NoDate
    /\ analysis = ""
    /\ analysisLoading = FALSE
    /\ analysisError = ""
    /\ analysisRequests = <<>>

Init == InitWith(Today)

(***************************************************************************)
(* The entry form.                                                         *)
(***************************************************************************)
FormFrame ==
    /\ NoDialog
    /\ UNCHANGED <<listVars, catVars, prefVars, rateVars, monthVars, calVars,
                   storeVars, mounted, sessions, aiVars, selectedFilterDate>>

\* The amounts typed in the runs about the store (one that is rejected, one
\* that is rounded); the runs about the form type every string of AmountInputs.
FewAmounts == { <<"0">>, <<"1", "5">> }

\* handleAmountChange: the field's value is stored as typed.
HandleAmountChange(inputs) ==
    /\ \E value \in inputs : amount' = value
    /\ UNCHANGED <<description, type>>
    /\ FormFrame

\* handleAmountBlur: a non-empty, non-negative number is replaced by its
\* rounding to the step.
HandleAmountBlur ==
    /\ LET value == amount
           num   == ParseFloat(value)
       IN  IF value = <<>> THEN UNCHANGED amount
           ELSE IF ~IsNaN(num) /\ num.val >= 0
                THEN amount' = NumberToString(RoundToStep(num.val))
                ELSE UNCHANGED amount
    /\ UNCHANGED <<description, type>>
    /\ FormFrame

AmountKeyDownUnclamped(key) ==
    /\ LET parsed   == ParseFloat(amount)
           current  == IF IsNaN(parsed) \/ parsed.val = 0 THEN 0 ELSE parsed.val
           step     == IF key = "ArrowUp" THEN 10 * Scale ELSE 0 - 10 * Scale
           rounded  == RoundToStep(current + step)
       IN  /\ key = "ArrowUp" => Len(amount) <= MaxAmountLen
           /\ amount' = NumberToString(rounded)
    /\ UNCHANGED <<description, type>>
    /\ FormFrame

\* handleAmountKeyDown for the key ArrowUp or ArrowDown: parseFloat(amount) || 0,
\* plus or minus 10, Math.max(0, ...), the step rounding, toString().
AmountKeyDown(key) ==
    /\ LET parsed   == ParseFloat(amount)
           current  == IF IsNaN(parsed) \/ parsed.val = 0 THEN 0 ELSE parsed.val
           step     == IF key = "ArrowUp" THEN 10 * Scale ELSE 0 - 10 * Scale
           newValue == IF current + step > 0 THEN current + step ELSE 0
           rounded  == RoundToStep(newValue)
       IN  /\ key = "ArrowUp" => Len(amount) <= MaxAmountLen
           /\ amount' = NumberToString(rounded)
    /\ UNCHANGED <<description, type>>
    /\ FormFrame

\* handleAmountKeyDown for ArrowUp / ArrowDown (other keys do nothing).
HandleAmountKeyDown == \E key \in {"ArrowUp", "ArrowDown"} : AmountKeyDown(key)

Descriptions == {"", "lunch"}

SetDescription ==
    /\ \E text \in Descriptions : description' = text
    /\ UNCHANGED <<amount, type>>
    /\ FormFrame

SetType ==
    /\ \E t \in {"income", "expense"} : type' = t
    /\ UNCHANGED <<amount, description>>
    /\ FormFrame

(***************************************************************************)
(* Requests to the record store.  A request in flight keeps what its       *)
(* handler's closure captured at the time of the event (the transactions,  *)
(* categories and amount of that render), its outcome once the store has   *)
(* answered, and the data of a successful answer.                          *)
(***************************************************************************)
\* Requests in flight at once: in the runs from construction, and in the
\* runs about concurrent inserts and deletes.
MaxPending == 1
MaxConcurrent == 2
\* Rows the table accepts in a run.
MaxRows == 2

\* created_at is an instant, counted in ticks of which a day has TicksPerDay.
TicksPerDay == 8

\* new Date(t.created_at): the local calendar date of a row's instant.
CreatedDate(t) == DateOfDayNumber(t.created_at \div TicksPerDay)

\* An instant of the given day.
InstantOf(year, month, day, tick) == DayNumber(year, month, day) * TicksPerDay + tick

NoRow == [id |-> 0, amount |-> 0, description |-> "", category |-> <<>>,
          type |-> "none", created_at |-> 0]

NoPayload == [amount |-> 0, description |-> "", category |-> <<>>, type |-> "none"]

\* The request of a handler running in the current render.
Request(kind, payload, id) ==
    [kind |-> kind, payload |-> payload, id |-> id,
     txs |-> transactions, cats |-> categories, shown |-> amount,
     status |-> "sent", row |-> NoRow, rows |-> <<>>]

RemoveAt(seq, i) == SubSeq(seq, 1, i - 1) \o SubSeq(seq, i + 1, Len(seq))

Ids(rows) == { rows[k].id : k \in 1..Len(rows) }

\* .order('created_at', { ascending: false }) over the table's rows.
RECURSIVE OrderedDescending(_)
OrderedDescending(rows) ==
    IF rows = {} THEN <<>>
    ELSE LET newest == CHOOSE r \in rows : \A q \in rows : q.created_at <= r.created_at
         IN  <<newest>> \o OrderedDescending(rows \ {newest})

\* loadTransactions up to its await: setLoading(true) and the select query.
LoadTransactionsStart ==
    /\ loading' = TRUE
    /\ pending' = Append(pending, Request("select", NoPayload, 0))

AddTransactionAcceptsZero(limit) ==
    LET amountNum == ParseFloat(amount)
    IN  IF amount = <<>> \/ IsNaN(amountNum) \/ amountNum.val < 0
        THEN /\ lastAlert' = "invalidAmount"
             /\ lastConfirm' = FALSE
             /\ UNCHANGED <<listVars, formVars, catVars, prefVars, rateVars, monthVars,
                            calVars, storeVars, mounted, sessions, aiVars, selectedFilterDate>>
        ELSE LET payload == [amount      |-> RoundToStep(amountNum.val),
                             description |-> IF description = "" THEN "no content"
                                             ELSE description,
                             category    |-> category,
                             type        |-> type]
             IN  /\ Len(pending) < limit
                 /\ pending' = Append(pending,
                                  Request("insert", payload, 0))
                 /\ NoDialog
                 /\ UNCHANGED <<listVars, formVars, catVars, prefVars, rateVars,
                                monthVars, calVars, store, nextId, mounted, sessions, aiVars, selectedFilterDate>>

\* addTransaction up to its await: validation, rounding and the insert.
\* At most limit requests are in flight.
AddTransaction(limit) ==
    LET amountNum == ParseFloat(amount)
    IN  IF amount = <<>> \/ IsNaN(amountNum) \/ amountNum.val <= 0
        THEN /\ lastAlert' = "invalidAmount"
             /\ lastConfirm' = FALSE
             /\ UNCHANGED <<listVars, formVars, catVars, prefVars, rateVars, monthVars,
                            calVars, storeVars, mounted, sessions, aiVars, selectedFilterDate>>
        ELSE LET roundedAmount == RoundToStep(amountNum.val)
                 payload == [amount      |-> roundedAmount,
                             description |-> IF description = "" THEN "no content"
                                             ELSE description,
                             category    |-> category,
                             type        |-> type]
             IN  /\ Len(pending) < limit
                 /\ pending' = Append(pending,
                                  Request("insert", payload, 0))
                 /\ NoDialog
                 /\ UNCHANGED <<listVars, formVars, catVars, prefVars, rateVars,
                                monthVars, calVars, store, nextId, mounted, sessions, aiVars, selectedFilterDate>>

\* deleteTransaction up to its await, for the row whose button was pressed.
\* At most limit requests are in flight.
DeleteTransaction(limit) ==
    \E id \in Ids(transactions), confirmed \in BOOLEAN :
        /\ lastAlert' = "none"
        /\ lastConfirm' = TRUE
        /\ IF confirmed
           THEN /\ Len(pending) < limit
                /\ pending' = Append(pending,
                                 Request("delete", NoPayload, id))
           ELSE UNCHANGED pending
        /\ UNCHANGED <<listVars, formVars, catVars, prefVars, rateVars, monthVars,
                       calVars, store, nextId, mounted, sessions, aiVars, selectedFilterDate>>

\* The store answers a request: it applies it and reports success, reports
\* an error, or the call fails with an exception.
StoreAnswers ==
    \E i \in 1..Len(pending), outcome \in {"ok", "error", "throw"} :
        LET req == pending[i]
            row == [id          |-> nextId,
                    amount      |-> req.payload.amount,
                    description |-> req.payload.description,
                    category    |-> req.payload.category,
                    type        |-> req.payload.type,
                    created_at  |-> InstantOf(Today.y, Today.m, Today.d, nextId)]
        IN  /\ req.status = "sent"
            /\ IF outcome # "ok"
               THEN /\ pending' = [pending EXCEPT ![i].status = outcome]
                    /\ UNCHANGED <<store, nextId>>
               ELSE IF req.kind = "insert"
               THEN /\ nextId <= MaxRows
                    /\ store' = store \cup {row}
                    /\ nextId' = nextId + 1
                    /\ pending' = [pending EXCEPT ![i].status = "ok", ![i].row = row]
               ELSE IF req.kind = "delete"
               THEN /\ store' = { r \in store : r.id # req.id }
                    /\ pending' = [pending EXCEPT ![i].status = "ok"]
                    /\ UNCHANGED nextId
               ELSE /\ pending' = [pending EXCEPT ![i].status = "ok",
                                                  ![i].rows = OrderedDescending(store)]
                    /\ UNCHANGED <<store, nextId>>
            /\ NoDialog
            /\ UNCHANGED <<listVars, formVars, catVars, prefVars, rateVars, monthVars,
                           calVars, mounted, sessions, aiVars, selectedFilterDate>>

ResponseFrame ==
    UNCHANGED <<newCategory, categories, prefVars, rateVars, monthVars, calVars, store,
                nextId, mounted, sessions, aiVars, selectedFilterDate>>

LoadTransactionsResumeNoFinally(req) ==
    /\ IF req.status = "ok"
       THEN transactions' = req.rows /\ NoDialog /\ loading' = FALSE
       ELSE /\ lastAlert' = "loadError" /\ lastConfirm' = FALSE
            /\ UNCHANGED <<transactions, loading>>
    /\ UNCHANGED <<formVars, category>>

\* loadTransactions after its await.
LoadTransactionsResume(req) ==
    /\ IF req.status = "ok"
       THEN transactions' = req.rows /\ NoDialog
       ELSE UNCHANGED transactions /\ lastAlert' = "loadError" /\ lastConfirm' = FALSE
    /\ loading' = FALSE
    /\ UNCHANGED <<formVars, category>>

AddTransactionResumeAppends(req) ==
    /\ IF req.status = "ok"
       THEN /\ transactions' = Append(req.txs, req.row)
            /\ amount' = <<>>
            /\ description' = ""
            /\ category' = IF Len(req.cats) > 0 THEN req.cats[1] ELSE category
            /\ type' = "expense"
            /\ NoDialog
       ELSE /\ lastAlert' = "addError"
            /\ lastConfirm' = FALSE
            /\ UNCHANGED <<transactions, formVars, category>>
    /\ UNCHANGED loading

\* addTransaction after its await.
AddTransactionResume(req) ==
    /\ IF req.status = "ok"
       THEN /\ transactions' = <<req.row>> \o req.txs
            /\ amount' = <<>>
            /\ description' = ""
            /\ category' = IF Len(req.cats) > 0 THEN req.cats[1] ELSE category
            /\ type' = "expense"
            /\ NoDialog
       ELSE /\ lastAlert' = "addError"
            /\ lastConfirm' = FALSE
            /\ UNCHANGED <<transactions, formVars, category>>
    /\ UNCHANGED loading

DeleteTransactionResumeOptimistic(req) ==
    /\ LET Keep(t) == t.id # req.id
       IN  transactions' = SelectSeq(req.txs, Keep)
    /\ IF req.status = "ok" THEN NoDialog
       ELSE lastAlert' = "deleteError" /\ lastConfirm' = FALSE
    /\ UNCHANGED <<loading, formVars, category>>

\* deleteTransaction after its await.
DeleteTransactionResume(req) ==
    /\ IF req.status = "ok"
       THEN /\ LET Keep(t) == t.id # req.id
               IN  transactions' = SelectSeq(req.txs, Keep)
            /\ NoDialog
       ELSE /\ lastAlert' = "deleteError"
            /\ lastConfirm' = FALSE
            /\ UNCHANGED transactions
    /\ UNCHANGED <<loading, formVars, category>>

\* The answer of a request reaches the page and its handler continues.
ResponseArrives ==
    \E i \in 1..Len(pending) :
        LET req == pending[i]
        IN  /\ req.status # "sent"
            /\ pending' = RemoveAt(pending, i)
            /\ IF req.kind = "select" THEN LoadTransactionsResume(req)
               ELSE IF req.kind = "insert" THEN AddTransactionResume(req)
               ELSE DeleteTransactionResume(req)
            /\ ResponseFrame

(***************************************************************************)
(* Exchange rate.                                                          *)
(***************************************************************************)
FallbackRate == 1300
MaxRateFetches == 2

\* The rates the service reports in the runs.
Rates == {1350, 1400}

\* loadExchangeRate up to its await.
LoadExchangeRateStart ==
    /\ exchangeRateLoading' = TRUE
    /\ rateFetches' = Append(rateFetches, [cached |-> exchangeRate])
    /\ UNCHANGED exchangeRate

\* The hourly interval fires.
RateTimerFires ==
    /\ mounted
    /\ Len(rateFetches) < MaxRateFetches
    /\ LoadExchangeRateStart
    /\ NoDialog
    /\ UNCHANGED <<listVars, formVars, catVars, prefVars, monthVars, calVars,
                   storeVars, mounted, sessions, aiVars, selectedFilterDate>>

\* What a fetch ends with: a failure (network error or non-2xx status), or
\* a body whose rates.KRW is krwRate, 0 standing for an absent or zero value.
RateOutcomes == [ok : BOOLEAN, krwRate : Rates \cup {0}]

RateFrame ==
    UNCHANGED <<listVars, formVars, catVars, prefVars, monthVars, calVars,
                storeVars, mounted, sessions, aiVars, selectedFilterDate>>

LoadExchangeRateResumeKeepsRate(i, outcome) ==
    /\ rateFetches' = RemoveAt(rateFetches, i)
    /\ IF outcome.ok /\ outcome.krwRate # 0
       THEN exchangeRate' = <<outcome.krwRate>>
       ELSE UNCHANGED exchangeRate
    /\ exchangeRateLoading' = FALSE
    /\ NoDialog
    /\ RateFrame

\* loadExchangeRate after its await, for the i-th fetch in flight.
LoadExchangeRateResume(i, outcome) ==
    /\ rateFetches' = RemoveAt(rateFetches, i)
    /\ IF ~outcome.ok THEN exchangeRate' = <<FallbackRate>>
       ELSE IF outcome.krwRate # 0 THEN exchangeRate' = <<outcome.krwRate>>
       ELSE UNCHANGED exchangeRate
    /\ exchangeRateLoading' = FALSE
    /\ NoDialog
    /\ RateFrame

RateResponseArrives ==
    \E i \in 1..Len(rateFetches), outcome \in RateOutcomes :
        LoadExchangeRateResume(i, outcome)

\* The divisor formatCurrency uses when no rate is cached.
FormatFallbackRate == 1300

\* The amounts formatted in the runs.
DisplayValues == {0, 10, 650, 1300, 13500, 100000}

\* formatCurrency: the currency symbol and the number shown, in cents for
\* USD (two fraction digits, rounded half up) and in won for KRW.
\* exchangeRate ? exchangeRate : 1300, the divisor of the USD display.
DisplayRate(cached) ==
    IF cached # NoRate /\ cached[1] # 0 THEN cached[1] ELSE FormatFallbackRate

FormatCurrency(value) ==
    IF currency = "USD"
    THEN LET rate == DisplayRate(exchangeRate)
         IN  [symbol |-> "$", shown |-> (2 * 100 * value + rate) \div (2 * rate)]
    ELSE [symbol |-> "W", shown |-> value]

(***************************************************************************)
(* Preferences in localStorage and the category registry.                  *)
(***************************************************************************)
\* JSON.stringify of an array of strings (no character needs escaping).
RECURSIVE JsonItems(_)
JsonItems(list) ==
    IF list = <<>> THEN <<>>
    ELSE <<"\"">> \o Head(list) \o <<"\"">>
         \o (IF Tail(list) = <<>> THEN <<>> ELSE <<",">> \o JsonItems(Tail(list)))

JsonStringify(list) == <<"[">> \o JsonItems(list) \o <<"]">>

\* The position of the first occurrence of c in text, 0 if there is none.
RECURSIVE IndexOf(_, _)
IndexOf(text, c) ==
    IF text = <<>> THEN 0
    ELSE IF Head(text) = c THEN 1
    ELSE LET k == IndexOf(Tail(text), c) IN IF k = 0 THEN 0 ELSE k + 1

\* The strings of the text of a JSON array's elements: "a","b",...
RECURSIVE JsonParseItems(_)
JsonParseItems(text) ==
    IF text = <<>> THEN <<>>
    ELSE LET body  == Tail(text)
             close == IndexOf(body, "\"")
             after == SubSeq(body, close + 1, Len(body))
         IN  <<SubSeq(body, 1, close - 1)>>
             \o (IF after = <<>> THEN <<>> ELSE JsonParseItems(Tail(after)))

\* JSON.parse of a text written by JsonStringify.
JsonParse(text) == JsonParseItems(SubSeq(text, 2, Len(text) - 1))

Range(seq) == { seq[k] : k \in 1..Len(seq) }

LoadAndSavePreferencesSaveFirst ==
    /\ UNCHANGED <<currency, categories, category>>
    /\ storage' = SetItem(SetItem(storage, "currency", <<currency>>),
                          "categories", JsonStringify(categories))

\* The state after the preference effects of a render have run: the load
\* effect reads both keys, then the two save effects write the state of the
\* first render, and the re-render caused by the loaded values runs the save
\* effects again, so that both keys end with the resulting state.
LoadAndSavePreferences ==
    LET savedCurrency   == IF HasItem(storage, "currency") THEN storage["currency"]
                           ELSE <<>>
        loadedCurrency  == IF savedCurrency \in {<<"KRW">>, <<"USD">>}
                           THEN savedCurrency[1] ELSE currency
        parsed          == IF HasItem(storage, "categories")
                           THEN JsonParse(storage["categories"]) ELSE <<>>
        loadedCats      == IF Len(parsed) > 0 THEN parsed ELSE categories
        loadedCat       == IF Len(parsed) > 0 THEN parsed[1] ELSE category
    IN  /\ currency' = loadedCurrency
        /\ categories' = loadedCats
        /\ category' = loadedCat
        /\ storage' = SetItem(SetItem(storage, "currency", <<loadedCurrency>>),
                              "categories", JsonStringify(loadedCats))

\* The effects of the first render: the transaction load, the rate load and
\* its hourly timer, and the preference effects.
Mount ==
    /\ ~mounted
    /\ mounted' = TRUE
    /\ sessions' = sessions + 1
    /\ UNCHANGED <<aiVars, selectedFilterDate>>
    /\ LoadTransactionsStart
    /\ LoadExchangeRateStart
    /\ LoadAndSavePreferences
    /\ NoDialog
    /\ UNCHANGED <<transactions, formVars, newCategory, monthVars, calVars, store,
                   nextId>>

\* The page component is torn down while the document lives on: the cleanup
\* of the mount effect clears the hourly interval.  Nothing else is undone:
\* the requests in flight stay in flight and their continuations stay bound
\* to the state setters.
Unmount ==
    /\ mounted
    /\ mounted' = FALSE
    /\ NoDialog
    /\ UNCHANGED <<listVars, formVars, catVars, prefVars, rateVars, monthVars, calVars,
                   storeVars, sessions, aiVars, selectedFilterDate>>

\* How many times the page is opened in a run.
MaxSessions == 2

\* The page is opened again (a new session): the component is constructed
\* anew; the table and localStorage persist; answers to the old page are lost.
Restart ==
    /\ mounted
    /\ sessions < MaxSessions
    /\ transactions' = <<>>
    /\ amount' = <<>>
    /\ description' = ""
    /\ categories' = DefaultCategories
    /\ category' = <<"gi", "ta">>
    /\ newCategory' = <<>>
    /\ type' = "expense"
    /\ loading' = TRUE
    /\ currency' = "KRW"
    /\ exchangeRate' = NoRate
    /\ exchangeRateLoading' = FALSE
    /\ rateFetches' = <<>>
    /\ selectedDate' = Today
    /\ selectedMonth' = Today
    /\ calendarView' = "month"
    /\ mounted' = FALSE
    /\ pending' = <<>>
    /\ NoDialog
    /\ selectedFilterDate' = NoDate
    /\ analysis' = ""
    /\ analysisLoading' = FALSE
    /\ analysisError' = ""
    /\ analysisRequests' = <<>>
    /\ UNCHANGED <<storage, store, nextId, sessions>>

CatFrame ==
    UNCHANGED <<listVars, formVars, rateVars, monthVars, calVars, storeVars, mounted, sessions, aiVars, selectedFilterDate>>

\* The currency buttons, followed by the save effect.
SetCurrency ==
    /\ \E c \in {"KRW", "USD"} :
          /\ currency' = c
          /\ storage' = SetItem(storage, "currency", <<c>>)
    /\ NoDialog
    /\ UNCHANGED catVars
    /\ CatFrame

\* String.prototype.trim for blanks.
RECURSIVE TrimStart(_)
TrimStart(s) == IF s # <<>> /\ Head(s) = " " THEN TrimStart(Tail(s)) ELSE s

RECURSIVE TrimEnd(_)
TrimEnd(s) ==
    IF s # <<>> /\ s[Len(s)] = " " THEN TrimEnd(SubSeq(s, 1, Len(s) - 1)) ELSE s

Trim(s) == TrimEnd(TrimStart(s))

\* What is typed into the new-category field in the runs.
NewCategoryInputs ==
    { <<>>, <<" ">>, <<"A">>, <<" ", "A", " ">>, <<"a">>, <<"sik", "bi">> }

SetNewCategory ==
    /\ \E text \in NewCategoryInputs : newCategory' = text
    /\ NoDialog
    /\ UNCHANGED <<categories, category, prefVars>>
    /\ CatFrame

\* The category <select>.
SetCategory ==
    /\ \E cat \in Range(categories) : category' = cat
    /\ NoDialog
    /\ UNCHANGED <<categories, newCategory, prefVars>>
    /\ CatFrame

AddCategoryAcceptsListed ==
    /\ IF Trim(newCategory) # <<>>
       THEN /\ categories' = Append(categories, Trim(newCategory))
            /\ newCategory' = <<>>
            /\ storage' = SetItem(storage, "categories", JsonStringify(categories'))
       ELSE UNCHANGED <<categories, newCategory, storage>>
    /\ NoDialog
    /\ UNCHANGED <<category, currency>>
    /\ CatFrame

AddCategoryUntrimmed ==
    /\ IF Trim(newCategory) # <<>> /\ Trim(newCategory) \notin Range(categories)
       THEN /\ categories' = Append(categories, newCategory)
            /\ newCategory' = <<>>
            /\ storage' = SetItem(storage, "categories", JsonStringify(categories'))
       ELSE UNCHANGED <<categories, newCategory, storage>>
    /\ NoDialog
    /\ UNCHANGED <<category, currency>>
    /\ CatFrame

\* addCategory, followed by the save effect when the list changed.
AddCategory ==
    /\ IF Trim(newCategory) # <<>> /\ Trim(newCategory) \notin Range(categories)
       THEN /\ categories' = Append(categories, Trim(newCategory))
            /\ newCategory' = <<>>
            /\ storage' = SetItem(storage, "categories", JsonStringify(categories'))
       ELSE UNCHANGED <<categories, newCategory, storage>>
    /\ NoDialog
    /\ UNCHANGED <<category, currency>>
    /\ CatFrame

DeleteCategoryUnguarded(catToDelete) ==
    \E confirmed \in BOOLEAN :
        /\ lastAlert' = "none"
        /\ lastConfirm' = TRUE
        /\ IF confirmed
           THEN LET Keep(cat) == cat # catToDelete
                    updated   == SelectSeq(categories, Keep)
                IN  /\ categories' = updated
                    /\ category' = IF category = catToDelete /\ Len(updated) > 0
                                    THEN updated[1] ELSE category
                    /\ storage' = SetItem(storage, "categories", JsonStringify(updated))
           ELSE UNCHANGED <<categories, category, storage>>
        /\ UNCHANGED <<newCategory, currency>>
        /\ CatFrame

DeleteCategoryGuardOffByOne(catToDelete) ==
    IF Len(categories) < 1
    THEN /\ lastAlert' = "minCategory"
         /\ lastConfirm' = FALSE
         /\ UNCHANGED <<catVars, prefVars>>
         /\ CatFrame
    ELSE DeleteCategoryUnguarded(catToDelete)

DeleteCategoryKeepsSelection(catToDelete) ==
    IF Len(categories) <= 1
    THEN /\ lastAlert' = "minCategory"
         /\ lastConfirm' = FALSE
         /\ UNCHANGED <<catVars, prefVars>>
         /\ CatFrame
    ELSE \E confirmed \in BOOLEAN :
        /\ lastAlert' = "none"
        /\ lastConfirm' = TRUE
        /\ IF confirmed
           THEN LET Keep(cat) == cat # catToDelete
                    updated   == SelectSeq(categories, Keep)
                IN  /\ categories' = updated
                    /\ storage' = SetItem(storage, "categories", JsonStringify(updated))
           ELSE UNCHANGED <<categories, storage>>
        /\ UNCHANGED <<category, newCategory, currency>>
        /\ CatFrame

\* deleteCategory, followed by the save effect when the list changed.
DeleteCategory(catToDelete) ==
    IF Len(categories) <= 1
    THEN /\ lastAlert' = "minCategory"
         /\ lastConfirm' = FALSE
         /\ UNCHANGED <<catVars, prefVars>>
         /\ CatFrame
    ELSE \E confirmed \in BOOLEAN :
        /\ lastAlert' = "none"
        /\ lastConfirm' = TRUE
        /\ IF confirmed
           THEN LET Keep(cat) == cat # catToDelete
                    updated   == SelectSeq(categories, Keep)
                IN  /\ categories' = updated
                    /\ category' = IF category = catToDelete /\ Len(updated) > 0
                                    THEN updated[1] ELSE category
                    /\ storage' = SetItem(storage, "categories", JsonStringify(updated))
           ELSE UNCHANGED <<categories, category, storage>>
        /\ UNCHANGED <<newCategory, currency>>
        /\ CatFrame

\* The delete button of one of the listed categories.
DeleteCategoryClick == \E cat \in Range(categories) : DeleteCategory(cat)

(***************************************************************************)
(* The summaries of the page.                                              *)
(***************************************************************************)
GetTransactionsForMonthAnyYear(txs, date) ==
    LET InMonth(t) == CreatedDate(t).m = date.m
    IN  SelectSeq(txs, InMonth)

\* getTransactionsForMonth: the rows created in the year and month of date.
GetTransactionsForMonth(txs, date) ==
    LET InMonth(t) == CreatedDate(t).y = date.y /\ CreatedDate(t).m = date.m
    IN  SelectSeq(txs, InMonth)

\* filter(type).reduce((sum, t) => sum + Number(t.amount), 0)
RECURSIVE SumAmounts(_, _)
SumAmounts(txs, kind) ==
    IF txs = <<>> THEN 0
    ELSE (IF Head(txs).type = kind THEN Head(txs).amount ELSE 0)
         + SumAmounts(Tail(txs), kind)

CalculateMonthlySummary(txs, date) ==
    LET monthTransactions == GetTransactionsForMonth(txs, date)
        income  == SumAmounts(monthTransactions, "income")
        expense == SumAmounts(monthTransactions, "expense")
    IN  [income |-> income, expense |-> expense, balance |-> income - expense]

CalculateSummaryBalanceIsExpense(txs) ==
    LET income  == SumAmounts(txs, "income")
        expense == SumAmounts(txs, "expense")
    IN  [income |-> income, expense |-> expense, balance |-> expense - income]

\* calculateSummary of the all-time summary.
CalculateSummary(txs) ==
    LET income  == SumAmounts(txs, "income")
        expense == SumAmounts(txs, "expense")
    IN  [income |-> income, expense |-> expense, balance |-> income - expense]

\* a / b of two numbers: a division by zero does not throw, it yields
\* Infinity, -Infinity or NaN.
Divide(a, b) ==
    IF b # 0 THEN [kind |-> "finite", num |-> a, den |-> b]
    ELSE IF a = 0 THEN [kind |-> "NaN", num |-> 0, den |-> 0]
    ELSE [kind |-> IF a > 0 THEN "Infinity" ELSE "-Infinity", num |-> 0, den |-> 0]

\* The quotient and remainder of n * 10^k by d, digit by digit.
RECURSIVE ScaledQuotient(_, _, _)
ScaledQuotient(n, d, k) ==
    IF k = 0 THEN [q |-> n \div d, r |-> n % d]
    ELSE LET p == ScaledQuotient(n, d, k - 1)
         IN  [q |-> 10 * p.q + (10 * p.r) \div d, r |-> (10 * p.r) % d]

\* ((q - 1) * 100).toFixed(1): the tenths of a percent, halves rounded away
\* from zero; the text of a non-finite number is its name.
PercentText(q) ==
    IF q.kind # "finite" THEN [kind |-> q.kind, tenths |-> 0]
    ELSE LET n   == IF q.den > 0 THEN q.num - q.den ELSE q.den - q.num
             d   == IF q.den > 0 THEN q.den ELSE 0 - q.den
             p   == ScaledQuotient(IF n >= 0 THEN n ELSE 0 - n, d, 3)
             mag == p.q + (IF 2 * p.r >= d THEN 1 ELSE 0)
         IN  [kind |-> "finite", tenths |-> IF n >= 0 THEN mag ELSE 0 - mag]

NoPercent == [kind |-> "none", tenths |-> 0]

MonthOverMonthUnguarded(current, previous) ==
    [shown    |-> TRUE,
     plus     |-> current >= previous,
     delta    |-> current - previous,
     divisors |-> {previous},
     percent  |-> PercentText(Divide(current, previous))]

\* The "compared with the previous month" line of the income card and of the
\* expense card: whether it is rendered, its sign, its difference, its
\* percentage and the divisors of the divisions its rendering evaluates.
MonthOverMonth(current, previous) ==
    IF previous > 0
    THEN [shown    |-> TRUE,
          plus     |-> current >= previous,
          delta    |-> current - previous,
          divisors |-> {previous},
          percent  |-> IF previous > 0 THEN PercentText(Divide(current, previous))
                       ELSE [kind |-> "finite", tenths |-> 0]]
    ELSE [shown    |-> FALSE,
          plus     |-> FALSE,
          delta    |-> 0,
          divisors |-> {},
          percent  |-> NoPercent]

\* const { income, expense, balance } = calculateMonthlySummary(selectedMonth)
\* and previousMonthSummary of the render.
MonthSummary == CalculateMonthlySummary(transactions, selectedMonth)

PreviousMonthSummary ==
    CalculateMonthlySummary(transactions, GetPreviousMonth(selectedMonth))

IncomeDelta == MonthOverMonth(MonthSummary.income, PreviousMonthSummary.income)

ExpenseDelta == MonthOverMonth(MonthSummary.expense, PreviousMonthSummary.expense)

(***************************************************************************)
(* Month selector of the summary (the buttons around the month input).     *)
(***************************************************************************)
MonthFrame ==
    /\ NoDialog
    /\ UNCHANGED <<listVars, formVars, catVars, prefVars, rateVars, calVars, storeVars,
                   mounted, sessions, aiVars, selectedFilterDate>>

\* "<-": setMonth(getMonth() - 1) on a copy of selectedMonth.
SelectPreviousMonth ==
    /\ InRange(SetMonth(selectedMonth, selectedMonth.m - 1))
    /\ selectedMonth' = SetMonth(selectedMonth, selectedMonth.m - 1)
    /\ MonthFrame

\* "->": setMonth(getMonth() + 1) on a copy of selectedMonth.
SelectNextMonth ==
    /\ InRange(SetMonth(selectedMonth, selectedMonth.m + 1))
    /\ selectedMonth' = SetMonth(selectedMonth, selectedMonth.m + 1)
    /\ MonthFrame

\* <input type="month">: new Date(year, month - 1), the 1st of the chosen month.
ChangeMonthInput ==
    /\ \E year \in Years, month \in 1..12 :
          selectedMonth' = MakeDate(year, month - 1, 1)
    /\ MonthFrame

\* "this month": new Date(), whatever day the clock shows.
SelectThisMonth ==
    /\ \E now \in Dates : selectedMonth' = now
    /\ MonthFrame

NextMonth ==
    \/ SelectPreviousMonth
    \/ SelectNextMonth
    \/ ChangeMonthInput
    \/ SelectThisMonth


(***************************************************************************)
(* Calendar navigation (month view and week view).                         *)
(***************************************************************************)
CalFrame ==
    /\ NoDialog
    /\ UNCHANGED <<listVars, formVars, catVars, prefVars, rateVars, monthVars, storeVars,
                   mounted, sessions, aiVars, selectedFilterDate>>

SetCalendarView ==
    /\ \E v \in {"month", "week"} : calendarView' = v
    /\ UNCHANGED selectedDate
    /\ CalFrame

CalendarPreviousMonth ==
    /\ calendarView = "month"
    /\ InRange(SetMonth(selectedDate, selectedDate.m - 1))
    /\ selectedDate' = SetMonth(selectedDate, selectedDate.m - 1)
    /\ UNCHANGED calendarView
    /\ CalFrame

CalendarNextMonth ==
    /\ calendarView = "month"
    /\ InRange(SetMonth(selectedDate, selectedDate.m + 1))
    /\ selectedDate' = SetMonth(selectedDate, selectedDate.m + 1)
    /\ UNCHANGED calendarView
    /\ CalFrame

CalendarPreviousWeek ==
    /\ calendarView = "week"
    /\ InRange(SetDate(selectedDate, selectedDate.d - 7))
    /\ selectedDate' = SetDate(selectedDate, selectedDate.d - 7)
    /\ UNCHANGED calendarView
    /\ CalFrame

CalendarNextWeek ==
    /\ calendarView = "week"
    /\ InRange(SetDate(selectedDate, selectedDate.d + 7))
    /\ selectedDate' = SetDate(selectedDate, selectedDate.d + 7)
    /\ UNCHANGED calendarView
    /\ CalFrame

\* isDateSelected against a filter date: the same year, month and day.
IsDateSelected(filter, date) ==
    /\ filter # NoDate
    /\ date.y = filter[1].y
    /\ date.m = filter[1].m
    /\ date.d = filter[1].d

SelectDateAlways(filter, date) == <<date>>

\* The filter date handleDateClick sets when the cell of date is clicked.
SelectDate(filter, date) ==
    IF IsDateSelected(filter, date) THEN NoDate ELSE <<date>>

\* The cells of the calendar that is shown.
ShownCells ==
    IF calendarView = "month" THEN Range(GetDaysInMonth(selectedDate))
    ELSE Range(GetWeekDays(selectedDate))

FilterFrame ==
    /\ NoDialog
    /\ UNCHANGED <<listVars, formVars, catVars, prefVars, rateVars, monthVars, calVars,
                   storeVars, mounted, sessions, aiVars>>

HandleDateClick(date) ==
    /\ selectedFilterDate' = SelectDate(selectedFilterDate, date)
    /\ FilterFrame

\* A cell of the shown calendar is clicked.
DateCellClick == \E date \in ShownCells : HandleDateClick(date)

\* The button that shows the whole list again.
ClearDateFilter ==
    /\ selectedFilterDate # NoDate
    /\ selectedFilterDate' = NoDate
    /\ FilterFrame

NextFilter ==
    \/ DateCellClick
    \/ ClearDateFilter
    \/ CalendarPreviousWeek
    \/ CalendarNextWeek

NextCal ==
    \/ SetCalendarView
    \/ CalendarPreviousMonth
    \/ CalendarNextMonth
    \/ CalendarPreviousWeek
    \/ CalendarNextWeek


(***************************************************************************)
(* The AIAnalysis component.  Its transactions prop is the page's list.    *)
(***************************************************************************)
\* reduce((sum, t) => sum + Number(t.amount), 0) over the rows of one type.
RECURSIVE SumOfType(_, _)
SumOfType(txs, kind) ==
    IF txs = <<>> THEN 0
    ELSE (IF Head(txs).type = kind THEN Head(txs).amount ELSE 0)
         + SumOfType(Tail(txs), kind)

\* The categoryMap of handleAnalyze as a sequence of entries in insertion
\* order: one entry per category of the expense rows, with their total.
RECURSIVE CategoryEntries(_, _)
CategoryEntries(txs, entries) ==
    IF txs = <<>> THEN entries
    ELSE LET t == Head(txs)
             Has(e) == e.category = t.category
         IN  IF t.type # "expense" THEN CategoryEntries(Tail(txs), entries)
             ELSE IF SelectSeq(entries, Has) = <<>>
             THEN CategoryEntries(Tail(txs),
                      Append(entries, [category |-> t.category, amount |-> t.amount]))
             ELSE CategoryEntries(Tail(txs),
                      [k \in 1..Len(entries) |->
                          IF entries[k].category = t.category
                          THEN [entries[k] EXCEPT !.amount = @ + t.amount]
                          ELSE entries[k]])

\* Array.prototype.sort((a, b) => b[1] - a[1]): stable, by amount descending.
RECURSIVE SortByAmountDescending(_)
SortByAmountDescending(entries) ==
    IF entries = <<>> THEN <<>>
    ELSE LET k == CHOOSE i \in 1..Len(entries) :
                     /\ \A j \in 1..Len(entries) : entries[j].amount <= entries[i].amount
                     /\ \A j \in 1..(i - 1) : entries[j].amount < entries[i].amount
         IN  <<entries[k]>> \o SortByAmountDescending(RemoveAt(entries, k))

AnalysisSummaryUnsorted(txs) ==
    LET income  == SumOfType(txs, "income")
        expense == SumOfType(txs, "expense")
        entries == CategoryEntries(txs, <<>>)
    IN  [income        |-> income,
         expense       |-> expense,
         balance       |-> income - expense,
         topCategories |-> SubSeq(entries, 1, IF Len(entries) < 3 THEN Len(entries) ELSE 3)]

\* The argument handleAnalyze passes to analyzeSpending.
AnalysisSummary(txs) ==
    LET income  == SumOfType(txs, "income")
        expense == SumOfType(txs, "expense")
        sorted  == SortByAmountDescending(CategoryEntries(txs, <<>>))
    IN  [income        |-> income,
         expense       |-> expense,
         balance       |-> income - expense,
         topCategories |-> SubSeq(sorted, 1, IF Len(sorted) < 3 THEN Len(sorted) ELSE 3)]

AnalyzeButtonIgnoresLoading == analysis = ""

\* The render conditions of the two buttons that start handleAnalyze.
AnalyzeButtonShown == analysis = "" /\ ~analysisLoading

ReanalyzeButtonShown == analysis # ""

\* The analyses the service writes in the runs.
AnalysisTexts == {"advice A", "advice B"}
MaxAnalyses == 2

AiFrame ==
    /\ NoDialog
    /\ UNCHANGED <<listVars, formVars, catVars, prefVars, rateVars, monthVars, calVars,
                   storeVars, mounted, sessions, selectedFilterDate>>

\* handleAnalyze up to its await.
HandleAnalyze ==
    /\ Len(analysisRequests) < MaxAnalyses
    /\ analysisLoading' = TRUE
    /\ analysisError' = ""
    /\ analysis' = ""
    /\ analysisRequests' = Append(analysisRequests,
                              [summary |-> AnalysisSummary(transactions),
                               shown   |-> analysis])
    /\ AiFrame

\* What analyzeSpending ends with: an exception, or a text ("" standing for
\* an absent or empty response.text).
AnalysisOutcomes == [ok : BOOLEAN, text : AnalysisTexts \cup {""}]

\* handleAnalyze after its await, for the i-th call in flight.
HandleAnalyzeResume(i, outcome) ==
    /\ analysisRequests' = RemoveAt(analysisRequests, i)
    /\ IF ~outcome.ok
       THEN analysisError' = "analysis failed" /\ UNCHANGED analysis
       ELSE IF outcome.text # ""
       THEN analysis' = outcome.text /\ UNCHANGED analysisError
       ELSE UNCHANGED <<analysis, analysisError>>
    /\ analysisLoading' = FALSE
    /\ AiFrame

AnalysisResponseArrives ==
    \E i \in 1..Len(analysisRequests), outcome \in AnalysisOutcomes :
        HandleAnalyzeResume(i, outcome)

(***************************************************************************)
(* The specifications.                                                     *)
(***************************************************************************)
\* The page with its store requests, from construction.
\* The handlers run only once the first render's effects have run.
Next ==
    \/ Mount
    \/ mounted /\ HandleAmountChange(FewAmounts)
    \/ mounted /\ AddTransaction(MaxPending)
    \/ mounted /\ DeleteTransaction(MaxPending)
    \/ StoreAnswers
    \/ ResponseArrives

Spec == Init /\ [][Next]_vars

\* The state once the mount effects have run and the initial load of the
\* (empty) table has been answered and applied.
\* The greatest id among rows, 0 if there is none.
MaxId(rows) ==
    IF rows = <<>> THEN 0
    ELSE CHOOSE n \in Ids(rows) : \A k \in Ids(rows) : k <= n

\* The state once the mount effects have run and the initial load of the
\* table, which holds rows, has been answered and applied.
InitLoadedWith(view, rows) ==
    /\ transactions = rows
    /\ amount = <<>>
    /\ description = ""
    /\ categories = DefaultCategories
    /\ category = <<"gi", "ta">>
    /\ newCategory = <<>>
    /\ type = "expense"
    /\ loading = FALSE
    /\ currency = "KRW"
    /\ exchangeRate = NoRate
    /\ exchangeRateLoading = TRUE
    /\ rateFetches = <<[cached |-> NoRate]>>
    /\ selectedDate = Today
    /\ selectedMonth = Today
    /\ calendarView = view
    /\ mounted = TRUE
    /\ sessions = 1
    /\ storage = SetItem(SetItem(NoItems, "currency", <<"KRW">>),
                         "categories", JsonStringify(DefaultCategories))
    /\ store = Range(rows)
    /\ nextId = 1 + MaxId(rows)
    /\ pending = <<>>
    /\ lastAlert = "none"
    /\ lastConfirm = FALSE
    /\ selectedFilterDate = NoDate
    /\ analysis = ""
    /\ analysisLoading = FALSE
    /\ analysisError = ""
    /\ analysisRequests = <<>>

InitLoadedIn(view) == InitLoadedWith(view, <<>>)

InitLoaded == InitLoadedIn("month")

\* Inserts and deletes after the initial load has completed.
NextLoaded ==
    \/ HandleAmountChange(FewAmounts)
    \/ AddTransaction(MaxConcurrent)
    \/ DeleteTransaction(MaxConcurrent)
    \/ StoreAnswers
    \/ ResponseArrives

SpecLoaded == InitLoaded /\ [][NextLoaded]_vars

\* The entry form with every amount string, up to and including the
\* hand-over of one insert to the store.
NextForm ==
    \/ pending = <<>> /\ HandleAmountChange(AmountInputs)
    \/ pending = <<>> /\ HandleAmountBlur
    \/ pending = <<>> /\ HandleAmountKeyDown
    \/ pending = <<>> /\ SetDescription
    \/ pending = <<>> /\ SetType
    \/ AddTransaction(1)

SpecForm == InitLoaded /\ [][NextForm]_vars

\* "This month" brings every date of the modelled years into selectedMonth.
SpecMonth == InitLoaded /\ [][NextMonth]_vars

\* Navigation by weeks and months reaches every date of the modelled years.
SpecCal == InitLoaded /\ [][NextCal]_vars

\* The rows of the tables the summaries are computed over: incomes and
\* expenses in two months of one year and in one of these months a year before.
SummaryRow(id, won, kind, year, month, day) ==
    [id          |-> id,
     amount      |-> won * Scale,
     description |-> "no content",
     category    |-> <<"gi", "ta">>,
     type        |-> kind,
     created_at  |-> InstantOf(year, month, day, id)]

SummaryRows ==
    { SummaryRow(1, 3000, "income", FirstYear, 2, 5),
      SummaryRow(2, 5000, "expense", FirstYear + 1, 1, 15),
      SummaryRow(3, 10000, "income", FirstYear + 1, 2, 10),
      SummaryRow(4, 4000, "expense", FirstYear + 1, 2, 20) }

SummaryLists == { OrderedDescending(rows) : rows \in SUBSET SummaryRows }

InitSummary == \E rows \in SummaryLists : InitLoadedWith("month", rows)

\* The monthly summary of every month over every table of SummaryLists.
SpecSummary == InitSummary /\ [][NextMonth]_vars

\* The date filter under navigation by weeks, once the week view is chosen.
SpecFilter == InitLoadedIn("week") /\ [][NextFilter]_vars

\* The exchange-rate fetches of the mount effect and of its hourly timer.
NextRate ==
    \/ Mount
    \/ RateTimerFires
    \/ RateResponseArrives
    \/ mounted /\ SetCurrency
    \/ StoreAnswers
    \/ ResponseArrives

SpecRate == Init /\ [][NextRate]_vars

\* The category registry and the saved preferences across sessions.
NextCat ==
    \/ Mount
    \/ Restart
    \/ mounted /\ SetCurrency
    \/ mounted /\ SetNewCategory
    \/ mounted /\ SetCategory
    \/ mounted /\ AddCategory
    \/ mounted /\ DeleteCategoryClick

SpecCat == Init /\ [][NextCat]_vars

\* Inserts in flight while the category list is edited.
NextSelect ==
    \/ HandleAmountChange(FewAmounts)
    \/ AddTransaction(MaxPending)
    \/ StoreAnswers
    \/ ResponseArrives
    \/ SetCategory
    \/ DeleteCategoryClick

SpecSelect == InitLoaded /\ [][NextSelect]_vars

\* The AIAnalysis view over a list that inserts change meanwhile.
NextAnalysis ==
    \/ AnalyzeButtonShown /\ HandleAnalyze
    \/ ReanalyzeButtonShown /\ HandleAnalyze
    \/ AnalysisResponseArrives
    \/ HandleAmountChange(FewAmounts)
    \/ SetType
    \/ AddTransaction(MaxPending)
    \/ StoreAnswers
    \/ ResponseArrives

SpecAnalysis == InitLoaded /\ [][NextAnalysis]_vars

\* Incomes and expenses inserted, deleted and loaded again in a new session,
\* one request at a time.
NextLedger ==
    \/ HandleAmountChange(FewAmounts)
    \/ SetType
    \/ AddTransaction(1)
    \/ DeleteTransaction(1)
    \/ StoreAnswers
    \/ ResponseArrives
    \/ Restart
    \/ Mount

SpecLedger == InitLoaded /\ [][NextLedger]_vars

\* Every asynchronous operation of the page and of the analysis view, with
\* its failures.
NextFailures ==
    \/ Next
    \/ RateTimerFires
    \/ RateResponseArrives
    \/ mounted /\ AnalyzeButtonShown /\ HandleAnalyze
    \/ mounted /\ ReanalyzeButtonShown /\ HandleAnalyze
    \/ AnalysisResponseArrives

SpecFailures == Init /\ [][NextFailures]_vars

\* Inserts and deletes, two at a time, also while the load of a reopened
\* page is in flight.
NextOrder ==
    \/ mounted /\ HandleAmountChange({<<"1", "5">>})
    \/ mounted /\ AddTransaction(2)
    \/ mounted /\ DeleteTransaction(2)
    \/ StoreAnswers
    \/ ResponseArrives
    \/ Restart
    \/ Mount

SpecOrder == InitLoaded /\ [][NextOrder]_vars

\* The page and the analysis view with their requests, torn down at any
\* moment and not mounted again.
NextTeardown ==
    \/ sessions = 0 /\ Mount
    \/ Unmount
    \/ mounted /\ HandleAmountChange(FewAmounts)
    \/ mounted /\ AddTransaction(MaxPending)
    \/ mounted /\ DeleteTransaction(MaxPending)
    \/ StoreAnswers
    \/ ResponseArrives
    \/ RateTimerFires
    \/ RateResponseArrives
    \/ mounted /\ AnalyzeButtonShown /\ HandleAnalyze
    \/ mounted /\ ReanalyzeButtonShown /\ HandleAnalyze
    \/ AnalysisResponseArrives

SpecTeardown == Init /\ [][NextTeardown]_vars

\* The rows of the tables the analysis is computed over: expenses of four
\* categories, two of them with equal totals and one with two rows, an income
\* and an income booked under a category that also has expenses.
AnalysisRows ==
    { [SummaryRow(1, 3000, "expense", FirstYear, 0, 10) EXCEPT !.category = <<"sik", "bi">>],
      [SummaryRow(2, 2000, "expense", FirstYear, 0, 11) EXCEPT !.category = <<"gyo", "tong">>],
      [SummaryRow(3, 1000, "expense", FirstYear, 0, 12) EXCEPT !.category = <<"sik", "bi">>],
      [SummaryRow(4, 2000, "expense", FirstYear, 0, 13) EXCEPT !.category = <<"syo", "ping">>],
      SummaryRow(5, 500, "expense", FirstYear, 0, 14),
      [SummaryRow(6, 9000, "income", FirstYear, 0, 15) EXCEPT !.category = <<"wol", "geup">>],
      [SummaryRow(7, 7000, "income", FirstYear, 0, 16) EXCEPT !.category = <<"sik", "bi">>] }

InitTop == \E rows \in SUBSET AnalysisRows : InitLoadedWith("month", OrderedDescending(rows))

\* The analysis view over every list of rows of AnalysisRows.
NextTop ==
    \/ AnalyzeButtonShown /\ HandleAnalyze
    \/ ReanalyzeButtonShown /\ HandleAnalyze
    \/ AnalysisResponseArrives

SpecTop == InitTop /\ [][NextTop]_vars

\* The three operations that set a loading flag: the load of the list, the
\* rate fetches of the mount effect and of the timer, and the analyses.
NextLive ==
    \/ Mount
    \/ StoreAnswers
    \/ ResponseArrives
    \/ RateTimerFires
    \/ RateResponseArrives
    \/ mounted /\ AnalyzeButtonShown /\ HandleAnalyze
    \/ mounted /\ ReanalyzeButtonShown /\ HandleAnalyze
    \/ AnalysisResponseArrives

\* The effects of the first render run; every request is answered, with
\* success or failure, and the continuation of an answered request runs.
Fairness ==
    /\ WF_vars(Mount)
    /\ WF_vars(StoreAnswers)
    /\ WF_vars(ResponseArrives)
    /\ WF_vars(RateResponseArrives)
    /\ WF_vars(AnalysisResponseArrives)

SpecLive == Init /\ [][NextLive]_vars /\ Fairness

(***************************************************************************)
(* Claims about the transaction list and the store.                        *)
(***************************************************************************)
StoreIds == { r.id : r \in store }

\* C1: once every response has been handled, the in-memory list holds
\* exactly the rows the store holds (those inserted and not deleted), each once.
C1_ListMatchesStore ==
    pending = <<>> =>
        /\ Ids(transactions) = StoreIds
        /\ Len(transactions) = Cardinality(StoreIds)

FailureAlert(kind) ==
    IF kind = "select" THEN "loadError"
    ELSE IF kind = "insert" THEN "addError" ELSE "deleteError"

\* C2: the step that handles a failed answer (error result or exception) of
\* a load, insert or delete shows that operation's alert and leaves the list
\* as it was; the list changes only in a step that handles a successful answer.
C2_FailureLeavesList ==
    [][ /\ \A i \in 1..Len(pending) :
             (pending[i].status \in {"error", "throw"} /\ pending' = RemoveAt(pending, i))
                => /\ transactions' = transactions
                   /\ lastAlert' = FailureAlert(pending[i].kind)
        /\ transactions' # transactions
             => \E i \in 1..Len(pending) :
                   pending[i].status = "ok" /\ pending' = RemoveAt(pending, i)
      ]_vars

\* A delete has just failed and the list still shows rows.
C2_DeleteFailedWitness == lastAlert = "deleteError" /\ transactions # <<>>

(***************************************************************************)
(* Claims about the entry form.                                            *)
(***************************************************************************)
\* C3: every amount handed to the store for insertion is greater than 0.
C3_SentAmountsPositive ==
    \A i \in 1..Len(pending) :
        pending[i].kind = "insert" => pending[i].payload.amount > 0

\* C4: the step rounding of every amount the field can hold is a multiple of
\* 10, and so is every amount handed to the store, whatever the field showed
\* at submission.
C4_StepRoundingMultipleOf10 ==
    /\ \A i \in 1..Len(pending) :
          pending[i].kind = "insert" => IsMultipleOf10(pending[i].payload.amount)
    /\ ~IsNaN(ParseFloat(amount)) => IsMultipleOf10(RoundToStep(ParseFloat(amount).val))

\* A submission whose field showed a value that is no multiple of 10.
C4_UnroundedSubmitted ==
    \E i \in 1..Len(pending) :
        /\ pending[i].kind = "insert"
        /\ ~IsMultipleOf10(ParseFloat(pending[i].shown).val)
        /\ pending[i].payload.amount > 0

\* The amount field is empty, not a number, or not greater than 0.
AmountIsInvalid ==
    \/ amount = <<>>
    \/ ~IsValidFloatString(amount)
    \/ ParseFloat(amount).val <= 0

\* C5: a submission with an empty, non-numeric or non-positive amount shows
\* the alert, issues no store call and leaves the list and the form fields
\* unchanged.
C5_InvalidAmountRejected ==
    [][ (AddTransaction(MaxPending) /\ AmountIsInvalid)
          => /\ lastAlert' = "invalidAmount"
             /\ UNCHANGED <<transactions, amount, description, category, type,
                            pending, store>>
      ]_vars

\* An invalid submission was rejected while the list held rows.
C5_RejectedWitness == lastAlert = "invalidAmount" /\ transactions # <<>>

(***************************************************************************)
(* Claims about the category registry.                                     *)
(***************************************************************************)
\* C9: the category list is never empty.
C9_CategoriesNeverEmpty == Len(categories) >= 1

\* Every built-in category has been deleted and one added category is left.
C9_LastCategoryWitness ==
    /\ mounted
    /\ Len(categories) = 1
    /\ categories[1] \notin Range(DefaultCategories)

\* C10: deleteCategory on a list of at most one element shows the
\* at-least-one-category alert, asks for no confirmation and changes neither
\* the list nor the selected category.
C10_LastCategoryKept ==
    [][ \A cat \in Range(categories) :
           (DeleteCategory(cat) /\ Len(categories) <= 1)
             => /\ lastAlert' = "minCategory"
                /\ lastConfirm' = FALSE
                /\ UNCHANGED <<categories, category>>
      ]_vars

\* deleteCategory has just refused to delete the only category.
C10_RefusedWitness == lastAlert = "minCategory" /\ Len(categories) = 1

(***************************************************************************)
(* Claims about the calendar arithmetic.                                   *)
(***************************************************************************)
\* p lies in the calendar month immediately before ref's month.
InPrecedingMonth(p, ref) ==
    IF ref.m = 0 THEN p.y = ref.y - 1 /\ p.m = 11
                 ELSE p.y = ref.y /\ p.m = ref.m - 1

\* C6: for every reference date the previous-month date used for the
\* previous-month summary lies in the calendar month immediately preceding
\* the selected month.
C6_PreviousMonthPrecedes ==
    InPrecedingMonth(GetPreviousMonth(selectedMonth), selectedMonth)

IsCalendarDate(date) ==
    /\ date.m \in 0..11
    /\ date.d \in 1..DaysInMonthOf(date.y, date.m)

\* C7: the month grid has exactly 42 real calendar dates, consecutive and
\* strictly increasing; its first cell is the Sunday on or before the 1st of
\* the reference month; the 1st sits at the index of its weekday.
C7_MonthGrid ==
    LET g     == GetDaysInMonth(selectedDate)
        first == [y |-> selectedDate.y, m |-> selectedDate.m, d |-> 1]
    IN  /\ Len(g) = 42
        /\ \A i \in 1..Len(g) : IsCalendarDate(g[i])
        /\ \A i \in 1..(Len(g) - 1) : DayOf(g[i + 1]) = DayOf(g[i]) + 1
        /\ GetDay(g[1]) = 0
        /\ DayOf(g[1]) <= DayOf(first)
        /\ DayOf(first) - DayOf(g[1]) <= 6
        /\ g[GetDay(first) + 1] = first

\* The month view shows a January whose leading cells lie in the previous
\* year, or a December whose trailing cells lie in the next year.
C7_GridCrossesYear ==
    LET g == GetDaysInMonth(selectedDate)
    IN  /\ calendarView = "month"
        /\ \/ selectedDate.m = 0 /\ g[1].y = selectedDate.y - 1
           \/ selectedDate.m = 11 /\ g[42].y = selectedDate.y + 1

\* C8: the week grid has exactly 7 consecutive dates Sunday..Saturday, starts
\* at the Sunday on or before the reference date and contains the reference
\* date's calendar day.
C8_WeekGrid ==
    LET w   == GetWeekDays(selectedDate)
        ref == [y |-> selectedDate.y, m |-> selectedDate.m, d |-> selectedDate.d]
    IN  /\ Len(w) = 7
        /\ \A i \in 1..7 : IsCalendarDate(w[i]) /\ GetDay(w[i]) = i - 1
        /\ \A i \in 1..6 : DayOf(w[i + 1]) = DayOf(w[i]) + 1
        /\ DayOf(w[1]) <= DayOf(ref)
        /\ DayOf(ref) - DayOf(w[1]) <= 6
        /\ \E i \in 1..7 : w[i] = ref

\* The week view shows a week that spans a year boundary.
C8_WeekCrossesYear ==
    LET w == GetWeekDays(selectedDate)
    IN  calendarView = "week" /\ w[1].y # w[7].y

(***************************************************************************)
(* Claims about adding and removing categories and about the preferences.  *)
(***************************************************************************)
\* C11: addCategory leaves the category list unchanged when the trimmed name
\* is blank or already in the list (exact match); otherwise it appends the
\* trimmed name after the existing elements, whose order it keeps.
C11_AddCategory ==
    [][ AddCategory
          => LET name == Trim(newCategory)
             IN  IF name = <<>> \/ \E k \in 1..Len(categories) : categories[k] = name
                 THEN categories' = categories
                 ELSE /\ Len(categories') = Len(categories) + 1
                      /\ categories'[Len(categories')] = name
                      /\ SubSeq(categories', 1, Len(categories)) = categories
      ]_vars

\* Both "A" (entered with blanks around it) and "a" have been added.
C11_AddedWitness ==
    /\ Len(categories) = Len(DefaultCategories) + 2
    /\ <<"A">> \in Range(categories)
    /\ <<"a">> \in Range(categories)
    /\ SubSeq(categories, 1, Len(DefaultCategories)) = DefaultCategories

\* C12: the selected category is a member of the category list in every
\* reachable state, so that every submitted transaction carries a category
\* of the list, also after a category is deleted while an insert is in flight.
C12_SelectedCategoryIsMember == category \in Range(categories)

\* C13: a step of deleteCategory that removes the selected category makes
\* the first remaining category the selected one; a step that removes
\* another category leaves the selected category unchanged.
C13_DeleteReselects ==
    [][ \A cat \in Range(categories) :
           (DeleteCategory(cat) /\ categories' # categories)
             => IF category = cat THEN category' = categories'[1]
                                 ELSE category' = category
      ]_vars

\* The selected first category has just been deleted and the second one
\* took its place.
C13_ReselectedWitness ==
    /\ lastConfirm
    /\ categories = Tail(DefaultCategories)
    /\ category = DefaultCategories[2]

\* Both keys hold the current preferences.
PreferencesSaved ==
    /\ HasItem(storage, "currency") /\ storage["currency"] = <<currency>>
    /\ HasItem(storage, "categories")
    /\ storage["categories"] = JsonStringify(categories)
    /\ JsonParse(storage["categories"]) = categories

\* C14: while the page is mounted both keys of local storage hold the
\* current currency and category list; a mount that finds the preferences of
\* a previous session ends with exactly these as its currency and category
\* list and with local storage as it found it.
C14_PreferencesSurviveRestart ==
    /\ [](mounted => PreferencesSaved)
    /\ [][ (Mount /\ sessions >= 1)
             => /\ <<currency'>> = storage["currency"]
                /\ categories' = JsonParse(storage["categories"])
                /\ storage' = storage
         ]_vars

\* A later session shows USD and a category list that differs from the
\* built-in one in both directions.
C14_RestoredWitness ==
    /\ mounted
    /\ sessions = 2
    /\ currency = "USD"
    /\ <<"A">> \in Range(categories)
    /\ DefaultCategories[1] \notin Range(categories)

(***************************************************************************)
(* Claims about the exchange rate.                                         *)
(***************************************************************************)
\* C15: a step that handles a failed fetch makes the cached rate 1300 and
\* shows no alert; a step that handles a fetch that delivered a rate caches
\* that rate, whatever was cached by fetches handled before; and while no
\* rate is cached, the USD display divides by 1300.
C15_RateFallback ==
    /\ [](exchangeRate = NoRate /\ currency = "USD"
            => \A value \in DisplayValues :
                  FormatCurrency(value)
                    = [symbol |-> "$", shown |-> (200 * value + 1300) \div 2600])
    /\ [][ \A i \in 1..Len(rateFetches), outcome \in RateOutcomes :
             LoadExchangeRateResume(i, outcome)
               => /\ lastAlert' = "none"
                  /\ ~outcome.ok => exchangeRate' = <<1300>>
                  /\ (outcome.ok /\ outcome.krwRate # 0)
                       => exchangeRate' = <<outcome.krwRate>>
         ]_vars

\* Of two overlapping fetches one has failed and left the fallback rate,
\* the other is still in flight; the display is in USD.
C15_FailedWhileOverlapping ==
    /\ Len(rateFetches) = 1
    /\ ~exchangeRateLoading
    /\ exchangeRate = <<FallbackRate>>
    /\ currency = "USD"

(***************************************************************************)
(* Claims about the AIAnalysis view.                                       *)
(***************************************************************************)
\* C16: at most one analysis request is in flight, and while one is in
\* flight the loading flag is set and neither the analyze button nor the
\* re-analyze button is shown.
C16_OneAnalysisInFlight ==
    /\ Len(analysisRequests) <= 1
    /\ analysisRequests # <<>>
         => analysisLoading /\ ~AnalyzeButtonShown /\ ~ReanalyzeButtonShown

\* An analysis of a list with an expense is in flight.
C16_AnalysisPending ==
    /\ Len(analysisRequests) = 1
    /\ analysisRequests[1].summary.expense > 0
    /\ analysisLoading

\* C17: a step that handles a failure leaves the user-visible state as it
\* was before the failed action started: a failed load, insert or delete
\* leaves the list and the form fields, a failed rate fetch leaves the rate
\* the display uses, a failed analysis leaves the analysis that was shown.
C17_FailureRestoresState ==
    [][ /\ \A i \in 1..Len(pending) :
             (pending[i].status \in {"error", "throw"} /\ pending' = RemoveAt(pending, i))
                => UNCHANGED <<transactions, formVars, category>>
        /\ \A i \in 1..Len(rateFetches), outcome \in RateOutcomes :
             (LoadExchangeRateResume(i, outcome) /\ ~outcome.ok)
                => DisplayRate(exchangeRate') = DisplayRate(rateFetches[i].cached)
        /\ \A i \in 1..Len(analysisRequests), outcome \in AnalysisOutcomes :
             (HandleAnalyzeResume(i, outcome) /\ ~outcome.ok)
                => analysis' = analysisRequests[i].shown
      ]_vars

(***************************************************************************)
(* Claims about the date filter.                                           *)
(***************************************************************************)
\* C18: a click on a calendar cell clears the filter when the cell's day is
\* the filter date and makes the cell's day the filter date otherwise; two
\* clicks on the same cell starting from no filter end with no filter.
C18_SelectDate ==
    /\ [](\A date \in ShownCells :
            SelectDate(SelectDate(NoDate, date), date) = NoDate)
    /\ [][ \A date \in ShownCells :
             HandleDateClick(date)
               => selectedFilterDate'
                    = IF selectedFilterDate = <<date>> THEN NoDate ELSE <<date>>
         ]_vars

\* The list is filtered by a day of a week that is no longer shown.
C18_FilterReplaced ==
    /\ selectedFilterDate # NoDate
    /\ selectedFilterDate[1].m # selectedDate.m
    /\ selectedFilterDate[1] \notin ShownCells

(***************************************************************************)
(* Claims about the summaries.                                             *)
(***************************************************************************)
\* The total of the amounts of the rows at the positions of a set.
RECURSIVE TotalAt(_, _)
TotalAt(txs, positions) ==
    IF positions = {} THEN 0
    ELSE LET k == CHOOSE i \in positions : TRUE
         IN  txs[k].amount + TotalAt(txs, positions \ {k})

\* The positions of the rows of a type created in the year and month of date.
PositionsInMonth(txs, kind, date) ==
    { k \in 1..Len(txs) : /\ txs[k].type = kind
                          /\ CreatedDate(txs[k]).y = date.y
                          /\ CreatedDate(txs[k]).m = date.m }

\* The list of the example: income 10000 and expense 4000 in March,
\* expense 5000 in February of the same year.
ExampleList ==
    OrderedDescending({ r \in SummaryRows : CreatedDate(r).y = FirstYear + 1 })

\* C19: the monthly summary of the list for the selected month has as income
\* and expense the totals of the income and expense rows created in that
\* year and month, and as balance their difference; for the example list it
\* is {10000, 4000, 6000} in March and {0, 5000, -5000} in February.
C19_MonthlySummary ==
    LET s == CalculateMonthlySummary(transactions, selectedMonth)
    IN  /\ s.income = TotalAt(transactions,
                          PositionsInMonth(transactions, "income", selectedMonth))
        /\ s.expense = TotalAt(transactions,
                           PositionsInMonth(transactions, "expense", selectedMonth))
        /\ s.balance = s.income - s.expense
        /\ (transactions = ExampleList /\ selectedMonth.y = FirstYear + 1)
             => /\ selectedMonth.m = 2
                    => s = [income  |-> 10000 * Scale,
                            expense |-> 4000 * Scale,
                            balance |-> 6000 * Scale]
                /\ selectedMonth.m = 1
                    => s = [income  |-> 0,
                            expense |-> 5000 * Scale,
                            balance |-> (0 - 5000) * Scale]

\* March is selected and the list holds incomes of March of both years.
C19_SameMonthOtherYear ==
    /\ selectedMonth.m = 2
    /\ selectedMonth.y = FirstYear + 1
    /\ Len(transactions) = Cardinality(SummaryRows)
    /\ CalculateMonthlySummary(transactions, selectedMonth).income = 10000 * Scale

\* The positions of the rows of a type.
PositionsOfType(txs, kind) == { k \in 1..Len(txs) : txs[k].type = kind }

\* C20: after every insert, delete and load the all-time summary of the list
\* has as income and expense the totals of the income and expense rows and
\* as balance their difference, on the page and in the argument handleAnalyze
\* computes from the list.
C20_SummaryBalance ==
    LET s == CalculateSummary(transactions)
        a == AnalysisSummary(transactions)
    IN  /\ s.income = TotalAt(transactions, PositionsOfType(transactions, "income"))
        /\ s.expense = TotalAt(transactions, PositionsOfType(transactions, "expense"))
        /\ s.balance = s.income - s.expense
        /\ a.income = s.income /\ a.expense = s.expense
        /\ a.balance = a.income - a.expense

\* The list holds an income and an expense and has been loaded again after
\* the page was reopened.
C20_IncomeAndExpenseLoaded ==
    /\ sessions = 2
    /\ ~loading
    /\ PositionsOfType(transactions, "income") # {}
    /\ PositionsOfType(transactions, "expense") # {}

\* C21: the month-over-month line of the income card and of the expense card
\* is rendered exactly when the previous month's value is greater than zero;
\* a rendered line divides by that positive value and shows a finite
\* percentage, and a line that is not rendered evaluates no division.
C21_PercentageOnlyWhenPreviousPositive ==
    /\ IncomeDelta.shown <=> PreviousMonthSummary.income > 0
    /\ ExpenseDelta.shown <=> PreviousMonthSummary.expense > 0
    /\ \A line \in {IncomeDelta, ExpenseDelta} :
          /\ 0 \notin line.divisors
          /\ line.percent.kind \notin {"NaN", "Infinity", "-Infinity"}
          /\ line.shown => line.percent.kind = "finite"
          /\ ~line.shown => line.divisors = {} /\ line.percent = NoPercent

\* The previous month has expenses and no income while the selected month
\* has income: the expense line is shown, the income line is not.
C21_PreviousIncomeZero ==
    /\ PreviousMonthSummary.income = 0
    /\ MonthSummary.income > 0
    /\ PreviousMonthSummary.expense > 0
    /\ ExpenseDelta.shown
    /\ ExpenseDelta.percent = [kind |-> "finite", tenths |-> 0 - 200]
    /\ ~IncomeDelta.shown

(***************************************************************************)
(* Claims about the step rounding and the arrow keys of the amount field.  *)
(***************************************************************************)
\* The magnitude of a number.
Abs(v) == IF v >= 0 THEN v ELSE 0 - v

\* The field of a submission showed a non-negative multiple of 10.
ShowedMultipleOf10(req) ==
    /\ req.kind = "insert"
    /\ ~IsNaN(ParseFloat(req.shown))
    /\ ParseFloat(req.shown).val >= 0
    /\ IsMultipleOf10(ParseFloat(req.shown).val)

C22_RoundingIsStable ==
    /\ LET num == ParseFloat(amount)
       IN  (~IsNaN(num) /\ num.val >= 0)
              => RoundToStep(RoundToStep(num.val)) = RoundToStep(num.val)
    /\ \A i \in 1..Len(pending) :
          ShowedMultipleOf10(pending[i])
             => pending[i].payload.amount = ParseFloat(pending[i].shown).val

\* C22: the step rounding is idempotent for every amount x >= 0 the field
\* can hold, roundToStep(roundToStep(x)) = roundToStep(x); the text a blur
\* leaves in the field is the text a second blur would write, and a
\* submission of a field that shows a rounded amount sends that amount.
C22_StepRoundingIdempotent ==
    /\ []C22_RoundingIsStable
    /\ [][ HandleAmountBlur
             => LET after == ParseFloat(amount')
                IN  (amount' # <<>> /\ ~IsNaN(after) /\ after.val >= 0)
                       => NumberToString(RoundToStep(after.val)) = amount'
         ]_vars

\* A submission of a field that showed 60, which a rounding handler wrote
\* (no 6 can be typed in the runs), sent 60.
C22_SubmittedAfterRounding ==
    \E i \in 1..Len(pending) :
        /\ pending[i].kind = "insert"
        /\ pending[i].shown = <<"6", "0">>
        /\ pending[i].payload.amount = 60 * Scale

\* The step rounding of v is a multiple of 10 nearest to v.
IsNearestStep(v, r) == IsMultipleOf10(r) /\ 2 * Abs(r - v) <= 10 * Scale

\* v lies halfway between two multiples of 10.
IsTie(v) == (2 * v) % (20 * Scale) = 10 * Scale

\* The numbers the field can hold and the two of the example.
RoundedValues ==
    (IF IsNaN(ParseFloat(amount)) THEN {} ELSE {ParseFloat(amount).val})
        \cup {123 * Scale, 125 * Scale}

C23_NearestTiesUpwards ==
    /\ \A v \in RoundedValues :
          /\ IsNearestStep(v, RoundToStep(v))
          /\ IsTie(v) => RoundToStep(v) > v
          /\ (IsTie(v) /\ v >= 0) => Abs(RoundToStep(v)) > Abs(v)
    /\ RoundToStep(123 * Scale) = 120 * Scale
    /\ RoundToStep(125 * Scale) = 130 * Scale
    /\ \A i \in 1..Len(pending) :
          pending[i].kind = "insert"
             => LET v == ParseFloat(pending[i].shown).val
                    r == pending[i].payload.amount
                IN  /\ v > 0
                    /\ IsNearestStep(v, r)
                    /\ IsTie(v) => Abs(r) > Abs(v)

FieldValue == IF IsNaN(ParseFloat(amount)) THEN 0 ELSE ParseFloat(amount).val

\* C24: after a press of ArrowUp or ArrowDown the field shows a non-negative
\* multiple of 10 in its plain decimal form; from a non-negative multiple of
\* 10 (an empty or non-numeric field counting as 0) ArrowUp shows 10 more and
\* ArrowDown 10 less, but 0 from 0; from a negative amount at or below -10
\* both keys show 0.
C24_ArrowKeys ==
    [][ \A key \in {"ArrowUp", "ArrowDown"} :
          AmountKeyDown(key)
             => LET before == FieldValue
                    after  == ParseFloat(amount')
                IN  /\ ~IsNaN(after)
                    /\ after.val >= 0
                    /\ IsMultipleOf10(after.val)
                    /\ amount' = NumberToString(after.val)
                    /\ (before >= 0 /\ IsMultipleOf10(before) /\ key = "ArrowUp")
                          => after.val = before + 10 * Scale
                    /\ (before > 0 /\ IsMultipleOf10(before) /\ key = "ArrowDown")
                          => after.val = before - 10 * Scale
                    /\ (before = 0 /\ key = "ArrowDown") => after.val = 0
                    /\ before <= 0 - 10 * Scale => after.val = 0
      ]_vars

\* The field shows 1000, which only ArrowUp from 990 writes: the strings
\* typed and the results of a blur are shorter.
C24_SteppedUpToFourDigits == amount = <<"1", "0", "0", "0">>

(***************************************************************************)
(* Claims about the order of the list.                                     *)
(***************************************************************************)
\* C25: in every state the list is ordered by created_at descending: after
\* a load, after every handled insert and delete, with several requests in
\* flight and their answers handled in any order (the store stamps the rows
\* in increasing order of insertion).
C25_ListOrderedByCreatedAt ==
    \A k \in 1..(Len(transactions) - 1) :
        transactions[k].created_at > transactions[k + 1].created_at

\* Two rows are listed after the page was reopened, and of two requests in
\* flight the later one has been answered before the earlier one.
C25_AnsweredOutOfOrder ==
    /\ Len(transactions) = 2
    /\ sessions = 2
    /\ Len(pending) = 2
    /\ pending[1].status = "sent"
    /\ pending[2].status = "ok"

(***************************************************************************)
(* Claims about the teardown of the page.                                  *)
(***************************************************************************)
\* The page has been mounted and torn down.
TornDown == ~mounted /\ sessions >= 1

\* After the teardown no rate fetch is started.
C26_TimerCleared == [][ TornDown => Len(rateFetches') <= Len(rateFetches) ]_vars

C27_NoDuplicateCategories ==
    \A i, j \in 1..Len(categories) : categories[i] = categories[j] => i = j

\* In a second session the list loaded from local storage holds the added
\* label A, and the field holds that label again, surrounded by blanks.
C27_ListedLabelTypedAgain ==
    /\ sessions = 2
    /\ mounted
    /\ <<"A">> \in Range(categories)
    /\ newCategory = <<" ", "A", " ">>

(***************************************************************************)
(* Claims about the argument of the analysis.                              *)
(***************************************************************************)
\* The categories of the expense rows of a list.
ExpenseCategories(txs) ==
    { txs[k].category : k \in PositionsOfType(txs, "expense") }

\* The total of the expense rows of a category.
ExpenseTotal(txs, cat) ==
    TotalAt(txs, { k \in PositionsOfType(txs, "expense") : txs[k].category = cat })

\* top is a top-3 of the expense categories of txs.
IsTopCategories(txs, top) ==
    LET cats     == ExpenseCategories(txs)
        included == { top[i].category : i \in 1..Len(top) }
    IN  /\ Len(top) <= 3
        /\ Len(top) = (IF Cardinality(cats) < 3 THEN Cardinality(cats) ELSE 3)
        /\ \A i \in 1..Len(top) :
              /\ top[i].category \in cats
              /\ top[i].amount = ExpenseTotal(txs, top[i].category)
        /\ \A i, j \in 1..Len(top) :
              i < j => /\ top[i].category # top[j].category
                       /\ top[i].amount >= top[j].amount
        /\ \A cat \in cats \ included :
              \A i \in 1..Len(top) : ExpenseTotal(txs, cat) <= top[i].amount

\* C28: the topCategories handleAnalyze computes from the list, and those of
\* every call in flight, hold at most 3 entries, each for a different
\* category of the expense rows with the total of that category's expense
\* rows, in descending order of the totals, and no category left out has a
\* greater total than one that is included; income rows add nothing.
C28_TopCategories ==
    /\ IsTopCategories(transactions, AnalysisSummary(transactions).topCategories)
    /\ \A i \in 1..Len(analysisRequests) :
          IsTopCategories(transactions, analysisRequests[i].summary.topCategories)

\* A call is in flight for the whole table: of the four expense categories
\* the one with the smallest total is left out, and the 7000 of income
\* booked under the first category are not in its total.
C28_FourthCategoryOmitted ==
    /\ Len(transactions) = Cardinality(AnalysisRows)
    /\ Len(analysisRequests) = 1
    /\ analysisRequests[1].summary.topCategories =
          << [category |-> <<"sik", "bi">>, amount |-> 4000 * Scale],
             [category |-> <<"syo", "ping">>, amount |-> 2000 * Scale],
             [category |-> <<"gyo", "tong">>, amount |-> 2000 * Scale] >>

(***************************************************************************)
(* Claims about the month buttons.                                         *)
(***************************************************************************)
\* The months from year 0 to the month of a date.
MonthIndex(date) == date.y * 12 + date.m

\* C29: the "next" button of the summary month and of the calendar month
\* leads to the month that follows the selected date's, "previous" to the
\* month before, whatever the day of the month, and "previous" pressed
\* after "next" leads back to the month of the start.
C29_MonthButtonsMoveOneMonth ==
    [][ /\ SelectNextMonth
             => /\ MonthIndex(selectedMonth') = MonthIndex(selectedMonth) + 1
                /\ MonthIndex(GetPreviousMonth(selectedMonth')) = MonthIndex(selectedMonth)
        /\ SelectPreviousMonth
             => MonthIndex(selectedMonth') = MonthIndex(selectedMonth) - 1
        /\ CalendarNextMonth
             => /\ MonthIndex(selectedDate') = MonthIndex(selectedDate) + 1
                /\ MonthIndex(GetPreviousMonth(selectedDate')) = MonthIndex(selectedDate)
        /\ CalendarPreviousMonth
             => MonthIndex(selectedDate') = MonthIndex(selectedDate) - 1
      ]_vars

(***************************************************************************)
(* Claims about the loading flags.                                         *)
(***************************************************************************)
\* The loads of the list among the requests of a queue.
Loads(queue) == LET IsLoad(req) == req.kind = "select" IN SelectSeq(queue, IsLoad)

\* A flag is set only while a request of its operation is in flight.
C30_NoFlagWithoutRequest ==
    /\ (mounted /\ loading) => Loads(pending) # <<>>
    /\ exchangeRateLoading => rateFetches # <<>>
    /\ analysisLoading => analysisRequests # <<>>

\* C30: the step in which the continuation of a completed load, rate fetch
\* or analysis runs, after a success or a failure, leaves that operation's
\* flag false; a flag is true only while such a request is in flight; and,
\* every request being answered, each flag that is true becomes false.
C30_LoadingFlagsCleared ==
    /\ []C30_NoFlagWithoutRequest
    /\ [][ /\ (ResponseArrives /\ Len(Loads(pending')) < Len(Loads(pending)))
                => ~loading'
           /\ RateResponseArrives => ~exchangeRateLoading'
           /\ AnalysisResponseArrives => ~analysisLoading'
         ]_vars
    /\ loading ~> ~loading
    /\ exchangeRateLoading ~> ~exchangeRateLoading
    /\ analysisLoading ~> ~analysisLoading

\* The load, a rate fetch and an analysis have all failed, nothing is in
\* flight and no flag is set.
C30_ClearedAfterFailures ==
    /\ pending = <<>> /\ rateFetches = <<>> /\ analysisRequests = <<>>
    /\ exchangeRate = <<FallbackRate>>
    /\ analysisError # ""
    /\ transactions = <<>> /\ mounted
    /\ ~loading /\ ~exchangeRateLoading /\ ~analysisLoading

====
